---- MODULE Spec2Model ----
(***************************************************************************)
(* flow-sure: the Ok / Nil / Err container algebra (src/lib/ok.ts,         *)
(* src/lib/nil.ts, the Err class in src/lib/maybe.d.ts), the constructors  *)
(* result / task / wrap / maybe and the flow sequencer (src/lib/result.ts),*)
(* and the retrying calls: gather (src/index.ts) and the retry helper of    *)
(* the README and the tests.                                               *)
(*                                                                         *)
(* JavaScript values are records [k, n]: k is the kind, n distinguishes    *)
(* values of one kind (a number, a heap address, a container address, an   *)
(* error object).  Objects live in `heap`, containers in `conts`; Nil is   *)
(* the singleton NilRef.  Callbacks handed to the library are modelled by  *)
(* their outcome (the value they return, or the error they throw), drawn   *)
(* from small sets; they do not write to the payload they are handed.      *)
(***************************************************************************)
EXTENDS Integers, Sequences, FiniteSets, TLC

\* ---------------------------------------------------------------- bounds
MaxObjs  == 5   \* heap addresses
MaxConts == 2   \* Ok / Err instances alive in one run
MaxGets  == 2   \* get() calls counted per container
MaxSteps == 2   \* arguments after the first in a flow() call
MaxHeld  == 1   \* containers the caller keeps where every method is called
MaxRetries == 2 \* the retries argument of a retrying call

\* ---------------------------------------------------------------- values
Undef      == [k |-> "undef", n |-> 0]
Prim(i)    == [k |-> "prim", n |-> i]
FnVal      == [k |-> "fn", n |-> 0]
ObjRef(i)  == [k |-> "obj", n |-> i]
ErrorVal(i) == [k |-> "error", n |-> i]
ContRef(i) == [k |-> "cont", n |-> i]
NilRef     == [k |-> "nil", n |-> 0]
NullVal    == [k |-> "null", n |-> 0]
PromiseVal(i) == [k |-> "promise", n |-> i]
TrueVal    == [k |-> "bool", n |-> 1]
FalseVal   == [k |-> "bool", n |-> 0]

\* const consumedError = new ReferenceError('Mutable reference has already been consumed')
consumedError == ErrorVal(1)
\* new TypeError('Expected a function in flow')
flowTypeError == ErrorVal(2)
\* an Error object of the caller
callerError == ErrorVal(3)
\* const UNSET: any = Symbol()
UNSET == [k |-> "unset", n |-> 0]

VARIABLES heap, conts, last, flw, rt, law
vars == <<heap, conts, last, flw, rt, law>>

\* ---------------------------------------------------------------- util.ts
isFunction(v) == v.k = "fn"

\* value != null
isDefined(v) == v.k \notin {"undef", "null"}

\* mutant: typeof value !== 'undefined', which also holds of numbers and functions
isMutable_anyDefined(v) == v.k # "undef"

\* typeof value === 'object' && value !== null
isMutable(v) == v.k \in {"obj", "promise", "cont", "nil", "error"}

isError(v) == v.k = "error"

\* the condition of `c ? x : y`
Truthy(v) == v.k \notin {"undef", "null"} /\ v # FalseVal /\ v # Prim(0)

\* structuredClone succeeds on plain objects whose whole graph is plain
RECURSIVE Cloneable(_, _)
Cloneable(h, i) ==
    /\ h[i].plain
    /\ h[i].child # 0 => Cloneable(h, h[i].child)

Free(h) == {i \in 1..MaxObjs : ~h[i].used}

FirstFree(h) == CHOOSE i \in Free(h) : \A j \in Free(h) : i <= j

\* number of objects in the graph rooted at i
RECURSIVE GraphSize(_, _)
GraphSize(h, i) == IF h[i].child = 0 THEN 1 ELSE 1 + GraphSize(h, h[i].child)

\* mutant: a shallow copy ({ ...value }), which shares the nested objects
structuredClone_shallow(h, i) ==
    LET n == FirstFree(h)
    IN  [heap |-> [h EXCEPT ![n] = [used |-> TRUE, a |-> h[i].a, child |-> h[i].child,
                                    plain |-> TRUE, cls |-> FALSE, owner |-> "lib"]],
         id |-> n]

\* structuredClone: copy the graph rooted at i into fresh addresses.  The copy
\* of an instance of a class is a plain object: its own data, not its prototype.
RECURSIVE structuredClone(_, _)
structuredClone(h, i) ==
    LET n == FirstFree(h)
        h1 == [h EXCEPT ![n] = [used |-> TRUE, a |-> h[i].a, child |-> 0,
                                plain |-> TRUE, cls |-> FALSE, owner |-> "lib"]]
    IN  IF h[i].child = 0
        THEN [heap |-> h1, id |-> n]
        ELSE LET r == structuredClone(h1, h[i].child)
             IN  [heap |-> [r.heap EXCEPT ![n].child = r.id], id |-> n]

\* tryClone(value): [heap, value]
tryClone(h, v) ==
    IF ~isMutable(v) THEN [heap |-> h, value |-> v]
    ELSE IF v.k = "obj" /\ Cloneable(h, v.n)
         THEN LET r == structuredClone(h, v.n)
              IN  [heap |-> r.heap, value |-> ObjRef(r.id)]
         ELSE [heap |-> h, value |-> v]

\* room on the heap for the copy tryClone(v) makes
CloneFits(h, v) ==
    (v.k = "obj" /\ Cloneable(h, v.n)) => Cardinality(Free(h)) >= GraphSize(h, v.n)

\* the contents of a value, addresses left out (what toEqual compares)
RECURSIVE Snap(_, _)
Snap(h, v) ==
    IF v.k # "obj" THEN <<v>>
    ELSE <<h[v.n].a>> \o (IF h[v.n].child = 0 THEN <<>> ELSE Snap(h, ObjRef(h[v.n].child)))

\* ---------------------------------------------------------------- ok.ts
\* mutant: only a payload that was copied is guarded against a second get
NewOk_mutIfCopied(h, cs, v) ==
    LET c == tryClone(h, v)
        rec == [tag |-> "Ok", value |-> c.value, mut |-> c.value # v, error |-> Undef,
                src |-> v, orig |-> Snap(h, v), okGets |-> 0]
    IN  [heap |-> c.heap, conts |-> Append(cs, rec), ref |-> ContRef(Len(cs) + 1)]

\* new Ok(value): [heap, conts, ref]
NewOk(h, cs, v) ==
    LET c == tryClone(h, v)
        rec == [tag |-> "Ok", value |-> c.value, mut |-> isMutable(v), error |-> Undef,
                src |-> v, orig |-> Snap(h, v), okGets |-> 0]
    IN  [heap |-> c.heap, conts |-> Append(cs, rec), ref |-> ContRef(Len(cs) + 1)]

ok(h, cs, v) == NewOk(h, cs, v)

isOk(cs, v) == v.k = "cont" /\ cs[v.n].tag = "Ok"

\* get gone()
gone(c) == c.value = UNSET

isGone(cs, v) == isOk(cs, v) /\ gone(cs[v.n])

\* ---------------------------------------------------------------- err (maybe.d.ts)
\* String(x), as a code for the message
StringOf(v) == IF v.k = "prim" THEN v.n ELSE IF v.k = "undef" THEN 0 ELSE 9

\* new Error(String(x))
NewError(v) == ErrorVal(10 + StringOf(v))

\* mutant: new Err(error), whatever error is
err_noCoerce(h, cs, e) ==
    LET rec == [tag |-> "Err", value |-> Undef, mut |-> FALSE, error |-> e,
                src |-> e, orig |-> <<>>, okGets |-> 0]
    IN  [heap |-> h, conts |-> Append(cs, rec), ref |-> ContRef(Len(cs) + 1)]

\* err(error): [heap, conts, ref]
err(h, cs, e) ==
    LET rec == [tag |-> "Err", value |-> Undef, mut |-> FALSE,
                error |-> IF isError(e) THEN e ELSE NewError(e),
                src |-> e, orig |-> <<>>, okGets |-> 0]
    IN  [heap |-> h, conts |-> Append(cs, rec), ref |-> ContRef(Len(cs) + 1)]

isErr(cs, v) == v.k = "cont" /\ cs[v.n].tag = "Err"

\* ---------------------------------------------------------------- nil.ts
nil == NilRef

isNil(v) == v = NilRef

\* ---------------------------------------------------------------- maybe.ts
isMaybe(cs, v) == isOk(cs, v) \/ isNil(v)

\* mutant: every defined value is wrapped, a container included
maybe_rewrap(h, cs, v) ==
    IF ~isDefined(v) THEN [heap |-> h, conts |-> cs, ref |-> nil] ELSE ok(h, cs, v)

\* maybe(value): !isDefined(value) ? nil() : isMaybe(value) ? value : ok(value)
maybe(h, cs, v) ==
    IF ~isDefined(v) THEN [heap |-> h, conts |-> cs, ref |-> nil]
    ELSE IF isMaybe(cs, v) THEN [heap |-> h, conts |-> cs, ref |-> v]
    ELSE ok(h, cs, v)

\* ---------------------------------------------------------------- result.ts
isResult(cs, v) == isOk(cs, v) \/ isNil(v) \/ isErr(cs, v)

\* mutant: an Err is not recognised and goes through maybe()
wrap_noErrPass(h, cs, v) ==
    IF isError(v) THEN err(h, cs, v) ELSE maybe(h, cs, v)

\* wrap(value): isErr(value) ? value : isError(value) ? err(value) : maybe(value)
wrap(h, cs, v) ==
    IF isErr(cs, v) THEN [heap |-> h, conts |-> cs, ref |-> v]
    ELSE IF isError(v) THEN err(h, cs, v)
    ELSE maybe(h, cs, v)

\* A callback is its outcome o = [t, v]: t = "ret" (returns v; for an async
\* function: its promise fulfils with v), "throw" (throws v) or "reject" (its
\* promise rejects with v).
Ret(v) == [t |-> "ret", v |-> v]
Throw(v) == [t |-> "throw", v |-> v]
Reject(v) == [t |-> "reject", v |-> v]
\* ... and "ok" (returns ok(v), a container it builds) or "err" (returns err(v))
MakeOk(v) == [t |-> "ok", v |-> v]
MakeErr(v) == [t |-> "err", v |-> v]
\* ... and callbacks whose outcome depends on the argument x they are called
\* with: "msg" is e => e.message
Msg == [t |-> "msg", v |-> Undef]

\* reading a property of undefined throws a TypeError
noProperty == ErrorVal(6)

\* what the callback o does when it is called with x
Apply(o, x) ==
    IF o.t = "msg"
    THEN IF isError(x) THEN [t |-> "ret", v |-> Prim(x.n)]
         ELSE IF x \in {Undef, NullVal} THEN [t |-> "throw", v |-> noProperty]
         ELSE [t |-> "ret", v |-> Undef]
    ELSE o

\* calling a value that is not a function throws a TypeError
notAFunction == ErrorVal(4)

\* ... "id" is v => v, "okOf" is v => ok(v), "call" is v => v.method() and
\* "okCall" is v => ok(v.method()), where method is defined by the class of
\* the caller's instances and returns 9
Id == [t |-> "id", v |-> Undef]
OkOf == [t |-> "okOf", v |-> Undef]
CallMethod == [t |-> "call", v |-> Undef]
OkCallMethod == [t |-> "okCall", v |-> Undef]

\* v.method is a function: v is an instance of the class, prototype included
HasMethod(h, x) == x.k = "obj" /\ h[x.n].cls

\* what the callback o does when it is called with x, in the heap h
ApplyIn(h, o, x) ==
    IF o.t = "id" THEN [t |-> "ret", v |-> x]
    ELSE IF o.t = "okOf" THEN [t |-> "ok", v |-> x]
    ELSE IF o.t \in {"call", "okCall"}
    THEN IF HasMethod(h, x) THEN [t |-> IF o.t = "call" THEN "ret" ELSE "ok", v |-> Prim(9)]
         ELSE IF x.k \in {"undef", "null", "unset"} THEN [t |-> "throw", v |-> noProperty]
         ELSE [t |-> "throw", v |-> notAFunction]
    ELSE Apply(o, x)

\* the callback runs: one that builds a container leaves it in the table and
\* returns the reference to it
Run(h, cs, o) ==
    IF o.t = "ok" THEN LET r == ok(h, cs, o.v)
                       IN  [heap |-> r.heap, conts |-> r.conts, out |-> Ret(r.ref)]
    ELSE IF o.t = "err" THEN LET r == err(h, cs, o.v)
                             IN  [heap |-> r.heap, conts |-> r.conts, out |-> Ret(r.ref)]
    ELSE [heap |-> h, conts |-> cs, out |-> o]

\* mutant: the returned value is normalised by maybe(), which keeps an Error as a payload
result_maybe(h, cs, o) ==
    IF o.t = "ret" THEN maybe(h, cs, o.v) ELSE err(h, cs, o.v)

\* result(fn, ...args): try { return wrap(fn(...args)) } catch (error) { return err(error) }
result(h, cs, o) ==
    IF o.t = "ret" THEN wrap(h, cs, o.v) ELSE err(h, cs, o.v)

\* mutant: a rejection is stored as it is
task_rawReject(h, cs, o) ==
    IF o.t = "ret" THEN wrap(h, cs, o.v)
    ELSE [heap |-> h, ref |-> ContRef(Len(cs) + 1),
          conts |-> Append(cs, [tag |-> "Err", value |-> Undef, mut |-> FALSE, error |-> o.v,
                                src |-> o.v, orig |-> <<>>, okGets |-> 0])]

\* task(fn, ...args): try { return wrap(await fn(...args)) } catch (error) { return err(error) }
task(h, cs, o) ==
    IF o.t = "ret" THEN wrap(h, cs, o.v) ELSE err(h, cs, o.v)

\* ---------------------------------------------------------------- outcomes of one call
\* What the caller of a library function observes, and the state it leaves.
\* by names the callback the call invoked: "fn" (the function argument), a
\* handler of a Cases object, or "none".
Returns(h, cs, v, by) ==
    [heap |-> h, conts |-> cs, ret |-> v, threw |-> FALSE, exc |-> Undef, by |-> by]

Raises(h, cs, e, by) ==
    [heap |-> h, conts |-> cs, ret |-> Undef, threw |-> TRUE, exc |-> e, by |-> by]

FromAlloc(r, by) == Returns(r.heap, r.conts, r.ref, by)

\* the caller owns what get() hands out
RECURSIVE Release(_, _)
Release(h, v) ==
    IF v.k # "obj" THEN h
    ELSE LET h1 == [h EXCEPT ![v.n].owner = "caller"]
         IN  IF h[v.n].child = 0 THEN h1 ELSE Release(h1, ObjRef(h[v.n].child))

\* ---------------------------------------------------------------- Ok methods (ok.ts)
\* mutant: map without the gone check
OkMap_noGoneCheck(h, cs, i, o) ==
    IF o.t # "ret" THEN Raises(h, cs, o.v, "fn") ELSE FromAlloc(ok(h, cs, o.v), "fn")

\* map(fn): if (this.gone) throw consumedError; return ok(fn(this.value))
OkMap(h, cs, i, o) ==
    IF gone(cs[i]) THEN Raises(h, cs, consumedError, "none")
    ELSE LET a == ApplyIn(h, o, cs[i].value)
         IN  IF a.t # "ret" THEN Raises(h, cs, a.v, "fn")
             ELSE FromAlloc(ok(h, cs, a.v), "fn")

\* mutant: chain without the gone check
OkChain_noGoneCheck(h, cs, i, o) == FromAlloc(result(h, cs, o), "fn")

\* mutant: chain applies fn outside the boundary of result()
OkChain_noBoundary(h, cs, i, o) ==
    IF gone(cs[i]) THEN FromAlloc(err(h, cs, consumedError), "none")
    ELSE IF o.t # "ret" THEN Raises(h, cs, o.v, "fn")
    ELSE FromAlloc(wrap(h, cs, o.v), "fn")

\* chain(fn): this.gone ? err(consumedError) : result(() => fn(this.value))
OkChain(h, cs, i, o) ==
    IF gone(cs[i]) THEN FromAlloc(err(h, cs, consumedError), "none")
    ELSE LET c == Run(h, cs, ApplyIn(h, o, cs[i].value))
         IN  FromAlloc(result(c.heap, c.conts, c.out), "fn")

\* mutant: the payload is handed to fn through get()
OkAwait_viaGet(h, cs, i, o) ==
    IF gone(cs[i]) THEN FromAlloc(err(h, cs, consumedError), "none")
    ELSE LET cs1 == IF cs[i].mut THEN [cs EXCEPT ![i].value = UNSET] ELSE cs
         IN  FromAlloc(task(h, cs1, o), "fn")

\* await(fn): this.gone ? Promise.resolve(err(consumedError)) : task(() => fn(this.value))
OkAwait(h, cs, i, o) ==
    IF gone(cs[i]) THEN FromAlloc(err(h, cs, consumedError), "none")
    ELSE FromAlloc(task(h, cs, o), "fn")

\* mutant: filter without the gone check
OkFilter_noGoneCheck(h, cs, i, o) ==
    IF o.t # "ret" THEN Raises(h, cs, o.v, "fn")
    ELSE Returns(h, cs, IF Truthy(o.v) THEN ContRef(i) ELSE nil, "fn")

\* filter(fn): !this.gone && fn(this.value) ? this : nil()
OkFilter(h, cs, i, o) ==
    IF gone(cs[i]) THEN Returns(h, cs, nil, "none")
    ELSE IF o.t # "ret" THEN Raises(h, cs, o.v, "fn")
    ELSE Returns(h, cs, IF Truthy(o.v) THEN ContRef(i) ELSE nil, "fn")

\* guard(fn): this.filter(fn)
OkGuard(h, cs, i, o) == OkFilter(h, cs, i, o)

\* or(_), catch(_): return this
OkOr(h, cs, i, o) == Returns(h, cs, ContRef(i), "none")

OkCatch(h, cs, i, o) == Returns(h, cs, ContRef(i), "none")

\* a Cases object: for each of Ok, Nil, Err, Gone either no handler ([t |-> "none"])
\* or the handler's outcome
NoHandler == [t |-> "none", v |-> Undef]

Handle(h, cs, o, name) ==
    IF o.t = "ret" THEN Returns(h, cs, o.v, name) ELSE Raises(h, cs, o.v, name)

\* mutant: match tests cases.Ok before this.gone
OkMatch_okFirst(h, cs, i, cases) ==
    IF cases.Ok.t # "none" THEN Handle(h, cs, cases.Ok, "Ok")
    ELSE IF gone(cs[i])
    THEN IF cases.Gone.t # "none" THEN Handle(h, cs, cases.Gone, "Gone")
         ELSE FromAlloc(err(h, cs, consumedError), "none")
    ELSE Returns(h, cs, ContRef(i), "none")

\* match(cases)
OkMatch(h, cs, i, cases) ==
    IF gone(cs[i])
    THEN IF cases.Gone.t # "none" THEN Handle(h, cs, cases.Gone, "Gone")
         ELSE FromAlloc(err(h, cs, consumedError), "none")
    ELSE IF cases.Ok.t # "none" THEN Handle(h, cs, cases.Ok, "Ok")
         ELSE Returns(h, cs, ContRef(i), "none")

\* mutant: get never clears the slot
OkGet_noClear(h, cs, i) ==
    IF gone(cs[i]) THEN Raises(h, cs, consumedError, "none")
    ELSE Returns(Release(h, cs[i].value), cs, cs[i].value, "none")

\* get()
OkGet(h, cs, i) ==
    IF gone(cs[i]) THEN Raises(h, cs, consumedError, "none")
    ELSE LET val == cs[i].value
             cs1 == IF cs[i].mut THEN [cs EXCEPT ![i].value = UNSET] ELSE cs
         IN  Returns(Release(h, val), cs1, val, "none")

\* ---------------------------------------------------------------- Nil methods (nil.ts)
NilNoOp(h, cs) == Returns(h, cs, nil, "none")

\* or = (fn) => maybe(fn())
NilOr(h, cs, o) ==
    IF o.t # "ret" THEN Raises(h, cs, o.v, "fn") ELSE FromAlloc(maybe(h, cs, o.v), "fn")

NilMatch(h, cs, cases) ==
    IF cases.Nil.t # "none" THEN Handle(h, cs, cases.Nil, "Nil") ELSE Returns(h, cs, nil, "none")

\* get = (): void => {}
NilGet(h, cs) == Returns(h, cs, Undef, "none")

\* ---------------------------------------------------------------- Err methods (maybe.d.ts)
\* mutant: a new Err over the same error
ErrNoOp_rewrap(h, cs, i) == FromAlloc(err(h, cs, cs[i].error), "none")

\* map(_), chain(_), await(_): return this
ErrNoOp(h, cs, i) == Returns(h, cs, ContRef(i), "none")

\* filter = guard = (_) => nil()
ErrFilter(h, cs, i) == Returns(h, cs, nil, "none")

\* mutant: fn is called without the error
ErrOr_noArg(h, cs, i, o) ==
    LET a == Apply(o, Undef)
    IN  IF a.t # "ret" THEN Raises(h, cs, a.v, "fn") ELSE FromAlloc(maybe(h, cs, a.v), "fn")

\* or = (fn) => maybe(fn(this.error))
ErrOr(h, cs, i, o) ==
    LET a == Apply(o, cs[i].error)
    IN  IF a.t # "ret" THEN Raises(h, cs, a.v, "fn") ELSE FromAlloc(maybe(h, cs, a.v), "fn")

\* mutant: catch is a no-op on Err as it is on Ok and Nil
ErrCatch_noOp(h, cs, i, o) == Returns(h, cs, ContRef(i), "none")

\* catch = (fn) => result(() => fn(this.error))
ErrCatch(h, cs, i, o) ==
    LET c == Run(h, cs, o)
    IN  FromAlloc(result(c.heap, c.conts, c.out), "fn")

ErrMatch(h, cs, i, cases) ==
    IF cases.Err.t # "none" THEN Handle(h, cs, cases.Err, "Err") ELSE Returns(h, cs, ContRef(i), "none")

\* mutant: get returns the error
ErrGet_returns(h, cs, i) == Returns(h, cs, cs[i].error, "none")

\* get() { throw this.error }
ErrGet(h, cs, i) == Raises(h, cs, cs[i].error, "none")

\* ---------------------------------------------------------------- result.ts, continued
\* mutant: the payload is read from the slot, not through get()
unwrap_peek(h, cs, v) ==
    IF isErr(cs, v) THEN Returns(h, cs, cs[v.n].error, "none")
    ELSE IF isOk(cs, v) THEN Returns(h, cs, cs[v.n].value, "none")
    ELSE IF isNil(v) THEN NilGet(h, cs)
    ELSE Returns(h, cs, v, "none")

\* unwrap(value): isErr(value) ? value.error
\*                : isOk(value) || isNil(value) ? value.get() : value
unwrap(h, cs, v) ==
    IF isErr(cs, v) THEN Returns(h, cs, cs[v.n].error, "none")
    ELSE IF isOk(cs, v) THEN OkGet(h, cs, v.n)
    ELSE IF isNil(v) THEN NilGet(h, cs)
    ELSE Returns(h, cs, v, "none")

\* toResult(value), the earlier revision of wrap:
\* value == null ? nil() : isResult(value) ? value : isError(value) ? err(value) : ok(value)
toResult(h, cs, v) ==
    IF v \in {Undef, NullVal} THEN [heap |-> h, conts |-> cs, ref |-> nil]
    ELSE IF isResult(cs, v) THEN [heap |-> h, conts |-> cs, ref |-> v]
    ELSE IF isError(v) THEN err(h, cs, v)
    ELSE ok(h, cs, v)

\* ---------------------------------------------------------------- state
\* no container
NoCont == [tag |-> "none", value |-> Undef, mut |-> FALSE, error |-> Undef,
           src |-> Undef, orig |-> <<>>, okGets |-> 0]

\* last: the caller's latest call and what it observed of it
NoOp == [op |-> "none", recv |-> Undef, pre |-> "none", threw |-> FALSE, exc |-> Undef,
         ret |-> Undef, by |-> "none", arg |-> Undef, fresh |-> NoCont, made |-> 0]

\* flw: the one flow() call of a run.  res is the local `res` (a reference the
\* caller also holds, nil, or OwnRef: the container own that only the flow
\* holds); calls logs the invocations of step functions, resLog the values
\* res went through, work the asynchronous work each step started.
FlowIdle == [pc |-> "idle", fns |-> <<>>, idx |-> 0, res |-> Undef, own |-> NoCont,
             pend |-> NoHandler, calls |-> <<>>, work |-> <<>>, resLog |-> <<>>,
             out |-> [ref |-> Undef, c |-> NoCont], exc |-> Undef, first |-> Undef,
             nargs |-> 0]

\* rt: the one retrying call of a run.  outs[k] is what the k-th invocation of
\* fn does; retries and delay are the arguments of the attempt under way;
\* calls logs the invocations of fn, waits the timers that have fired.
RetryIdle == [pc |-> "idle", kind |-> "none", outs |-> <<>>, retries0 |-> 0, delay0 |-> 0,
              retries |-> 0, delay |-> 0, settled |-> 0, calls |-> <<>>, waits |-> <<>>,
              out |-> NoCont, exc |-> Undef]

\* law: the two sides of the last equation the caller evaluated, each as
\* toEqual sees it (the variant, the payload's contents, the error)
NoSide == [tag |-> "none", payload |-> <<>>, error |-> Undef]

NoLaw == [name |-> "none", x |-> Undef, f |-> NoHandler, g |-> NoHandler,
          lhs |-> NoSide, rhs |-> NoSide]

InitHeap ==
    [i \in 1..MaxObjs |->
        IF i = 1 THEN [used |-> TRUE, a |-> 0, child |-> 2, plain |-> TRUE, cls |-> FALSE,
                       owner |-> "caller"]
        ELSE IF i = 2 THEN [used |-> TRUE, a |-> 0, child |-> 0, plain |-> TRUE, cls |-> TRUE,
                            owner |-> "caller"]
        ELSE IF i = 3 THEN [used |-> TRUE, a |-> 0, child |-> 0, plain |-> FALSE, cls |-> FALSE,
                            owner |-> "caller"]
        ELSE [used |-> FALSE, a |-> 0, child |-> 0, plain |-> TRUE, cls |-> FALSE,
              owner |-> "none"]]

Init ==
    /\ heap = InitHeap
    /\ conts = <<>>
    /\ last = NoOp
    /\ flw = FlowIdle
    /\ rt = RetryIdle
    /\ law = NoLaw

\* ---------------------------------------------------------------- flow (result.ts)
\* An argument of flow(): its value val (a function or not); for a function,
\* whether it is declared async, and its outcome: "ret", "throw", "reject", or
\* "promise" (a function not declared async that returns a pending promise).
Arg(val, async, out) == [val |-> val, async |-> async, out |-> out]

\* isFunction(value) && (value.constructor.name === "AsyncFunction" || /^\s*async\s+/.test(...))
isAsyncFunction(a) == isFunction(a.val) /\ a.async

OwnRef == [k |-> "own", n |-> 0]

NilCont == [NoCont EXCEPT !.tag = "Nil"]

\* the containers the flow can reach: the caller's, then its own
Ext(f, cs) == cs \o <<f.own>>

ResRef(f, cs) == IF f.res = OwnRef THEN ContRef(Len(cs) + 1) ELSE f.res

\* res, as a reference and the container it denotes
Snapshot(f, cs) ==
    [ref |-> f.res,
     c |-> IF f.res = OwnRef THEN f.own
           ELSE IF f.res.k = "cont" THEN cs[f.res.n] ELSE NilCont]

\* res = r, where r refers into the table t that extends Ext(f, cs)
Assign(f, cs, r, t) ==
    LET f1 == IF r.k = "cont" /\ r.n > Len(cs)
              THEN [f EXCEPT !.res = OwnRef, !.own = t[r.n]]
              ELSE [f EXCEPT !.res = r, !.own = NoCont]
    IN  [f1 EXCEPT !.resLog = Append(@, Snapshot(f1, SubSeq(t, 1, Len(cs))))]

\* res.get()
FlowGet(f, h, cs) ==
    LET r == ResRef(f, cs)
    IN  IF isNil(r) THEN NilGet(h, Ext(f, cs))
        ELSE IF isErr(Ext(f, cs), r) THEN ErrGet(h, Ext(f, cs), r.n)
        ELSE OkGet(h, Ext(f, cs), r.n)

\* mutant: no break on Err
FlowBreaks_never(f, cs) == FALSE

\* mutant: Nil ends the loop as Err does
FlowBreaks_onNil(f, cs) == isErr(Ext(f, cs), ResRef(f, cs)) \/ isNil(ResRef(f, cs))

\* mutant: the step is tested first, so an Err ends the loop only before a function
FlowBreaks_afterCallable(f, cs) ==
    isErr(Ext(f, cs), ResRef(f, cs)) /\ isFunction(f.fns[f.idx].val)

\* if (isErr(res)) break
FlowBreaks(f, cs) == isErr(Ext(f, cs), ResRef(f, cs))

\* mutant: no test of the step
FlowStops_never(a) == FALSE

\* if (!isFunction(fn)) return err(...)
FlowStops(a) == ~isFunction(a.val)

\* isAsyncFunction(fn) ? await task(...) : result(...)
FlowAwaits(a) == isAsyncFunction(a)

\* return res
FlowReturn(f, cs) == [f EXCEPT !.pc = "done", !.out = Snapshot(f, cs)]

\* the outcome of calling step k
Invoke(a, k) ==
    IF ~isFunction(a.val) THEN Throw(notAFunction)
    ELSE IF a.out.t = "promise" THEN Ret(PromiseVal(k))
    ELSE a.out

\* the steps before k whose asynchronous work has not settled
Unsettled(f, k) == {j \in 1..(k - 1) : f.work[j] = "pending"}

\* the step function is entered with the value get() returned
Called(f, g) ==
    [f EXCEPT !.calls = Append(@, [step |-> f.idx, arg |-> g.ret,
                                   unsettled |-> Unsettled(f, f.idx)]),
              !.work[f.idx] = IF f.fns[f.idx].out.t \in {"promise"} \/ isAsyncFunction(f.fns[f.idx])
                              THEN "pending" ELSE "none",
              !.own = g.conts[Len(g.conts)]]

\* The for loop, from step f.idx up to the next await, the return or the
\* throw.  Yields [f, heap, conts].
RECURSIVE FlowLoop(_, _, _)
FlowLoop(f, h, cs) ==
    IF f.idx > Len(f.fns) \/ FlowBreaks(f, cs)
    THEN [f |-> FlowReturn(f, cs), heap |-> h, conts |-> cs]
    ELSE IF FlowStops(f.fns[f.idx])
    THEN LET e == err(h, <<>>, flowTypeError)
         IN  [f |-> [f EXCEPT !.pc = "done", !.out = [ref |-> OwnRef, c |-> e.conts[1]]],
              heap |-> h, conts |-> cs]
    ELSE LET a == f.fns[f.idx]
             g == FlowGet(f, h, cs)
             cs1 == SubSeq(g.conts, 1, Len(cs))
         IN  IF FlowAwaits(a)
             THEN \* await task(async () => fn(res.get())): a throw of get() rejects the
                  \* inner promise
                  IF g.threw
                  THEN [f |-> [f EXCEPT !.pc = "await", !.pend = Reject(g.exc)],
                        heap |-> h, conts |-> cs]
                  ELSE [f |-> [Called(f, g) EXCEPT !.pc = "await", !.pend = Invoke(a, f.idx)],
                        heap |-> g.heap, conts |-> cs1]
             ELSE \* result(fn, res.get()): get() runs before result() is entered
                  IF g.threw
                  THEN [f |-> [f EXCEPT !.pc = "rejected", !.exc = g.exc],
                        heap |-> h, conts |-> cs]
                  ELSE LET f1 == Called(f, g)
                           r == result(g.heap, Ext(f1, cs1), Invoke(a, f.idx))
                       IN  FlowLoop([Assign(f1, cs1, r.ref, r.conts) EXCEPT !.idx = @ + 1],
                                    r.heap, cs1)

\* mutant: the first argument is normalised by maybe(), which keeps an Error as a payload
FlowSeed_maybe(args, h, cs) ==
    LET f0 == [FlowIdle EXCEPT !.pc = "run", !.idx = 1, !.first = args[1].val,
                               !.nargs = Len(args)]
    IN  IF isFunction(args[1].val)
        THEN LET f1 == [f0 EXCEPT !.fns = args, !.work = [j \in 1..Len(args) |-> "none"]]
             IN  [f |-> Assign(f1, cs, nil, cs), heap |-> h]
        ELSE LET f1 == [f0 EXCEPT !.fns = Tail(args),
                                  !.work = [j \in 1..(Len(args) - 1) |-> "none"]]
                 r == maybe(h, Ext(f1, cs), args[1].val)
             IN  [f |-> Assign(f1, cs, r.ref, r.conts), heap |-> r.heap]

\* let res = isFunction(fns[0]) ? nil() : wrap(fns.shift())
FlowSeed(args, h, cs) ==
    LET f0 == [FlowIdle EXCEPT !.pc = "run", !.idx = 1, !.first = args[1].val,
                               !.nargs = Len(args)]
    IN  IF isFunction(args[1].val)
        THEN LET f1 == [f0 EXCEPT !.fns = args, !.work = [j \in 1..Len(args) |-> "none"]]
             IN  [f |-> Assign(f1, cs, nil, cs), heap |-> h]
        ELSE LET f1 == [f0 EXCEPT !.fns = Tail(args),
                                  !.work = [j \in 1..(Len(args) - 1) |-> "none"]]
                 r == wrap(h, Ext(f1, cs), args[1].val)
             IN  [f |-> Assign(f1, cs, r.ref, r.conts), heap |-> r.heap]

\* flow(...args), up to its first await
FlowStart(args) ==
    /\ flw.pc = "idle"
    /\ LET s == FlowSeed(args, heap, conts)
           x == FlowLoop(s.f, s.heap, conts)
       IN  /\ flw' = x.f
           /\ heap' = x.heap
           /\ conts' = x.conts
    /\ last' = [NoOp EXCEPT !.op = "flow"]
    /\ UNCHANGED <<rt, law>>

\* the awaited task settles and the loop goes on
FlowSettle ==
    /\ flw.pc = "await"
    /\ LET f1 == [flw EXCEPT !.work[flw.idx] = IF @ = "pending" THEN "settled" ELSE @,
                             !.pc = "run"]
           r == task(heap, Ext(f1, conts), flw.pend)
           x == FlowLoop([Assign(f1, conts, r.ref, r.conts) EXCEPT !.idx = @ + 1],
                         r.heap, conts)
       IN  /\ flw' = x.f
           /\ heap' = x.heap
           /\ conts' = x.conts
    /\ last' = [NoOp EXCEPT !.op = "flow"]
    /\ UNCHANGED <<rt, law>>

\* a promise that a step not declared async returned settles
WorkSettle(k) ==
    /\ k \in 1..Len(flw.work)
    /\ flw.work[k] = "pending"
    /\ ~(flw.pc = "await" /\ flw.idx = k)
    /\ flw' = [flw EXCEPT !.work[k] = "settled"]
    /\ UNCHANGED <<heap, conts, last, rt, law>>

\* ---------------------------------------------------------------- retrying calls
\* README and index.test.ts:
\*   retry = (fn, retries, delay) => task(fn).catch(error => {
\*       if (retries <= 0) return err(error)
\*       return new Promise(resolve => setTimeout(resolve, delay))
\*           .then(() => retry(fn, retries - 1, delay * 2)) })
\* index.ts:
\*   gather = async (fn, retries = 0, delay = 1000) => {
\*       const attemptTask = async (retries, delay) =>
\*           Promise.resolve(fn()).then(result => errOrEnsure(result))
\*               .catch(async error => {
\*                   if (retries < 1) return wrapErr(error)
\*                   await new Promise(res => setTimeout(res, delay))
\*                   return attemptTask(retries - 1, delay * 2) })
\*       return await attemptTask(retries, delay) }

\* retries: number = 0
DefaultRetries == 0
\* delay: number = 1000
DefaultDelay == 1000

\* the value of a parameter with a default
OrDefault(a, d) == IF a = Undef THEN d ELSE a.n

\* errOrEnsure(value): isErr(value) ? value : ensure(value)
errOrEnsure(h, cs, v) ==
    IF isErr(cs, v) THEN [heap |-> h, conts |-> cs, ref |-> v] ELSE maybe(h, cs, v)

\* wrapErr(error): Err(error instanceof Error ? error : new Error(String(error)))
wrapErr(h, cs, e) == err(h, cs, e)

\* the container r refers to in the table that holds it alone
Sole(r) == IF r.ref = NilRef THEN NilCont ELSE r.conts[1]

\* mutant: the delay stays the same
NextDelay_same(d) == d

\* delay * 2
NextDelay(d) == d * 2

\* A promise once settled: fulfilled with the container c, or rejected with e
Fulfilled(c) == [t |-> "fulfilled", c |-> c, e |-> Undef]
Rejected(e) == [t |-> "rejected", c |-> NoCont, e |-> e]

\* the promise task(fn) returns, settled, when fn does o
TaskPromise(o) == Fulfilled(Sole(task(heap, <<>>, o)))

\* the promise Promise.resolve(fn()).then(errOrEnsure), settled, when fn does o
GatherPromise(o) ==
    IF o.t = "ret" THEN Fulfilled(Sole(errOrEnsure(heap, <<>>, o.v))) ELSE Rejected(o.v)

\* fn is invoked for the attempt that starts in r
Attempt(r) ==
    [r EXCEPT !.calls = Append(@, [settled |-> r.settled, waits |-> Len(r.waits)])]

\* One attempt starts: retry calls task(fn), which catches a throw of fn;
\* attemptTask calls fn() outside any handler, so a throw of fn rejects the
\* promise attemptTask returned, and with it the one gather returned.
StartAttempt(r) ==
    LET r1 == Attempt(r)
        o == r1.outs[Len(r1.calls)]
    IN  IF r1.kind = "gather" /\ o.t = "throw"
        THEN [r1 EXCEPT !.pc = "rejected", !.exc = o.v]
        ELSE [r1 EXCEPT !.pc = "attempt"]

\* retry(fn, retries, delay)
RetryCall(outs, retries, delay) ==
    /\ rt.pc = "idle"
    /\ rt' = StartAttempt([RetryIdle EXCEPT !.kind = "retry", !.outs = outs,
                                            !.retries0 = retries, !.delay0 = delay,
                                            !.retries = retries, !.delay = delay])
    /\ UNCHANGED <<heap, conts, last, flw, law>>

\* gather(fn, retries, delay), either number left out or not
GatherCall(outs, retries, delay) ==
    /\ rt.pc = "idle"
    /\ rt' = StartAttempt([RetryIdle EXCEPT !.kind = "gather", !.outs = outs,
                                            !.retries0 = OrDefault(retries, DefaultRetries),
                                            !.delay0 = OrDefault(delay, DefaultDelay),
                                            !.retries = OrDefault(retries, DefaultRetries),
                                            !.delay = OrDefault(delay, DefaultDelay)])
    /\ UNCHANGED <<heap, conts, last, flw, law>>

\* The promise of the attempt under way settles and the .catch() chained on
\* it reacts: a fulfilled promise passes its value on, a rejected one runs the
\* handler, which gives up with an Err or starts the timer.
AttemptSettle ==
    /\ rt.pc = "attempt"
    /\ LET o == rt.outs[Len(rt.calls)]
           p == IF rt.kind = "retry" THEN TaskPromise(o) ELSE GatherPromise(o)
           r1 == [rt EXCEPT !.settled = @ + 1]
           spent == IF rt.kind = "retry" THEN rt.retries <= 0 ELSE rt.retries < 1
           gaveUp == IF rt.kind = "retry" THEN Sole(err(heap, <<>>, p.e))
                     ELSE Sole(wrapErr(heap, <<>>, p.e))
       IN  rt' = IF p.t = "fulfilled" THEN [r1 EXCEPT !.pc = "done", !.out = p.c]
                 ELSE IF spent THEN [r1 EXCEPT !.pc = "done", !.out = gaveUp]
                 ELSE [r1 EXCEPT !.pc = "wait"]
    /\ UNCHANGED <<heap, conts, last, flw, law>>

\* setTimeout(resolve, delay) fires and the next attempt starts with
\* retries - 1 and the next delay
TimerFires ==
    /\ rt.pc = "wait"
    /\ rt' = StartAttempt([rt EXCEPT !.waits = Append(@, rt.delay),
                                     !.retries = @ - 1, !.delay = NextDelay(@)])
    /\ UNCHANGED <<heap, conts, last, flw, law>>

\* ---------------------------------------------------------------- inputs
Scalars == {Prim(5), FnVal}
\* the objects the caller holds that are not a part of another object
CallerObjs(h) ==
    {ObjRef(i) : i \in {j \in 1..MaxObjs : /\ h[j].used /\ h[j].owner = "caller"
                                             /\ \A p \in 1..MaxObjs : h[p].child # j}}
Payloads(h) == Scalars \cup CallerObjs(h)
ContRefs(cs) == {ContRef(i) : i \in 1..Len(cs)}
Receivers(cs) == ContRefs(cs) \cup {NilRef}
Thrown == {callerError, Prim(7)}

\* outcomes of a function handed to filter, guard
PredOuts == {Ret(TrueVal), Ret(FalseVal), Throw(callerError)}
\* handlers of a Cases object
HandlerOuts == {NoHandler, Ret(Prim(7)), Throw(callerError)}
\* ... with or without an Ok and a Gone handler
GoneCases == [Ok : {NoHandler, Ret(Prim(7))}, Nil : {NoHandler}, Err : {NoHandler},
              Gone : {NoHandler, Ret(Prim(8))}]

\* the receiver's variant, as the call finds it
Pre(cs, r) ==
    IF isNil(r) THEN "nil"
    ELSE IF r.k # "cont" THEN "none"
    ELSE IF isErr(cs, r) THEN "err"
    ELSE IF gone(cs[r.n]) THEN "gone" ELSE "ok"

\* room on the heap for what wrapping v allocates
Room(h, cs, v) == CloneFits(h, v)

\* The call `op` on receiver r came out as x.  conts holds the containers the
\* caller keeps a reference to: a container the call created is kept (while
\* there is room) or dropped; last.fresh describes it either way.
Observe(op, r, arg, x) ==
    LET made == Len(x.conts) > Len(conts)
    IN  \E keep \in BOOLEAN :
            /\ keep => Len(x.conts) <= MaxConts
            /\ ~keep => made
            /\ heap' = x.heap
            /\ conts' = IF keep THEN x.conts ELSE SubSeq(x.conts, 1, Len(conts))
            /\ last' = [op |-> op, recv |-> r, pre |-> Pre(conts, r), threw |-> x.threw,
                        exc |-> x.exc, ret |-> x.ret, by |-> x.by, arg |-> arg,
                        fresh |-> IF made THEN x.conts[Len(x.conts)] ELSE NoCont,
                        made |-> Len(x.conts) - Len(conts)]
            /\ UNCHANGED <<flw, rt, law>>

\* ---------------------------------------------------------------- the caller's calls
\* ok(v)
CallOk(v) ==
    /\ Room(heap, conts, v)
    /\ Len(conts) < MaxConts
    /\ Observe("ok", Undef, v, FromAlloc(ok(heap, conts, v), "none"))

\* err(e)
CallErr(e) ==
    /\ Len(conts) < MaxConts
    /\ Observe("err", Undef, e, FromAlloc(err(heap, conts, e), "none"))

\* obj.a = 1 (or obj.child.a = 1) on an object the caller holds a reference to
Mutate(i) ==
    /\ heap[i].used /\ heap[i].owner = "caller" /\ heap[i].a = 0
    /\ heap[i].plain /\ heap[i].child = 0
    /\ heap' = [heap EXCEPT ![i].a = 1]
    /\ last' = [NoOp EXCEPT !.op = "mutate", !.recv = ObjRef(i)]
    /\ UNCHANGED <<conts, flw, rt, law>>

\* r.get()
Get(r) ==
    /\ r.k = "cont" => conts[r.n].okGets < MaxGets
    /\ LET x == IF isNil(r) THEN NilGet(heap, conts)
                ELSE IF isErr(conts, r) THEN ErrGet(heap, conts, r.n)
                ELSE OkGet(heap, conts, r.n)
           counted == IF r.k = "cont"
                      THEN [x.conts EXCEPT ![r.n].okGets = IF x.threw THEN @ ELSE @ + 1]
                      ELSE x.conts
       IN  Observe("get", r, Undef, [x EXCEPT !.conts = counted])

\* r.map(fn)
Map(r, o) ==
    /\ Room(heap, conts, o.v)
    /\ Observe("map", r, o,
               IF isNil(r) THEN NilNoOp(heap, conts)
               ELSE IF isErr(conts, r) THEN ErrNoOp(heap, conts, r.n)
               ELSE OkMap(heap, conts, r.n, o))

\* r.chain(fn)
Chain(r, o) ==
    /\ Room(heap, conts, o.v)
    /\ Observe("chain", r, o,
               IF isNil(r) THEN NilNoOp(heap, conts)
               ELSE IF isErr(conts, r) THEN ErrNoOp(heap, conts, r.n)
               ELSE OkChain(heap, conts, r.n, o))

\* await r.await(fn)
Await(r, o) ==
    /\ Room(heap, conts, o.v)
    /\ Observe("await", r, o,
               IF isNil(r) THEN NilNoOp(heap, conts)
               ELSE IF isErr(conts, r) THEN ErrNoOp(heap, conts, r.n)
               ELSE OkAwait(heap, conts, r.n, o))

\* r.filter(fn)
Filter(r, o) ==
    Observe("filter", r, o,
            IF isNil(r) THEN NilNoOp(heap, conts)
            ELSE IF isErr(conts, r) THEN ErrFilter(heap, conts, r.n)
            ELSE OkFilter(heap, conts, r.n, o))

\* r.guard(fn)
Guard(r, o) ==
    Observe("guard", r, o,
            IF isNil(r) THEN NilNoOp(heap, conts)
            ELSE IF isErr(conts, r) THEN ErrFilter(heap, conts, r.n)
            ELSE OkGuard(heap, conts, r.n, o))

\* r.or(fn)
Or(r, o) ==
    /\ Room(heap, conts, o.v)
    /\ Observe("or", r, o,
               IF isNil(r) THEN NilOr(heap, conts, o)
               ELSE IF isErr(conts, r) THEN ErrOr(heap, conts, r.n, o)
               ELSE OkOr(heap, conts, r.n, o))

\* r.catch(fn)
Catch(r, o) ==
    /\ Room(heap, conts, o.v)
    /\ Observe("catch", r, o,
               IF isNil(r) THEN NilNoOp(heap, conts)
               ELSE IF isErr(conts, r) THEN ErrCatch(heap, conts, r.n, o)
               ELSE OkCatch(heap, conts, r.n, o))

\* r.match(cases)
Match(r, cases) ==
    /\ Observe("match", r, cases,
               IF isNil(r) THEN NilMatch(heap, conts, cases)
               ELSE IF isErr(conts, r) THEN ErrMatch(heap, conts, r.n, cases)
               ELSE OkMatch(heap, conts, r.n, cases))

\* result(fn)
CallResult(o) ==
    /\ Room(heap, conts, o.v)
    /\ Observe("result", Undef, o, FromAlloc(result(heap, conts, o), "fn"))

\* await task(fn)
CallTask(o) ==
    /\ Room(heap, conts, o.v)
    /\ Observe("task", Undef, o, FromAlloc(task(heap, conts, o), "fn"))

\* the calls that create, read and consume containers
Next ==
    \/ \E v \in Payloads(heap) : CallOk(v)
    \/ \E i \in 1..MaxObjs : Mutate(i)
    \/ \E r \in Receivers(conts) : Get(r)
    \/ \E r \in Receivers(conts) : Map(r, Ret(Prim(5)))
    \/ \E r \in Receivers(conts) : Chain(r, Ret(Prim(5)))
    \/ \E r \in Receivers(conts) : Await(r, Ret(Prim(5)))
    \/ \E r \in Receivers(conts) : \E cases \in GoneCases : Match(r, cases)

Spec == Init /\ [][Next]_vars
\* ---------------------------------------------------------------- flow() runs
\* step functions: not declared async ...
SyncFns(cs) ==
    {Arg(FnVal, FALSE, o) :
        o \in {Ret(Prim(6)), Ret(Undef), Throw(Prim(7)), [t |-> "promise", v |-> Undef]}
              \cup {Ret(c) : c \in ContRefs(cs)}}
\* ... and declared async
AsyncFns == {Arg(FnVal, TRUE, o) : o \in {Ret(Prim(6)), Reject(callerError)}}
\* an argument that is not a function
NotFn(v) == Arg(v, FALSE, NoHandler)

FirstArgs(cs) ==
    SyncFns(cs) \cup AsyncFns
        \cup {NotFn(v) : v \in {Prim(5), Undef, callerError} \cup ContRefs(cs)}
StepArgs(cs) == SyncFns(cs) \cup AsyncFns \cup {NotFn(Prim(9))}

FlowArgs(cs) ==
    UNION {{<<a>> \o rest : a \in FirstArgs(cs), rest \in [1..n -> StepArgs(cs)]} :
              n \in 0..MaxSteps}

\* the caller builds containers, consumes them, and runs one flow()
NextFlow ==
    \/ flw.pc = "idle" /\ CallOk(ObjRef(3))
    \/ flw.pc = "idle" /\ CallErr(callerError)
    \/ \E r \in ContRefs(conts) : Get(r)
    \/ flw.pc = "idle" /\ \E args \in FlowArgs(conts) : FlowStart(args)
    \/ FlowSettle
    \/ \E k \in 1..(MaxSteps + 1) : WorkSettle(k)

SpecFlow == Init /\ [][NextFlow]_vars

\* ---------------------------------------------------------------- every call
\* Cases objects: the same handler for every variant, or Ok and Gone handlers only
SomeCases ==
    {[Ok |-> o, Nil |-> o, Err |-> o, Gone |-> o] : o \in HandlerOuts} \cup GoneCases

\* what a function handed to result, task or catch does: it returns a value,
\* nothing, an Error, Nil or a container of the caller, or it throws
BoundaryOuts(cs) ==
    {Ret(v) : v \in {Prim(6), Undef, callerError, NilRef} \cup ContRefs(cs)}
        \cup {Throw(e) : e \in Thrown}

\* short flows over a value or a container of the caller
ShortFlowArgs(cs) ==
    UNION {{<<a>> \o rest : a \in {NotFn(v) : v \in {Prim(5)} \cup ContRefs(cs)},
                            rest \in [1..n -> {Arg(FnVal, FALSE, Ret(Prim(6))),
                                               Arg(FnVal, FALSE, Throw(Prim(7))),
                                               Arg(FnVal, TRUE, Ret(Prim(6))),
                                               Arg(FnVal, TRUE, Reject(Prim(7))),
                                               NotFn(Prim(9))}]} :
              n \in 0..MaxSteps}

\* every method of every variant, result(), task() and flow(), with callbacks
\* that return and callbacks that throw
NextOps ==
    \/ /\ flw.pc = "idle"
       /\ \/ \E v \in {Prim(5), ObjRef(3)} : CallOk(v)
          \/ \E e \in Thrown : CallErr(e)
          \/ \E r \in Receivers(conts) : \E o \in {Ret(Prim(6)), Throw(callerError)} : Map(r, o)
          \/ \E r \in Receivers(conts) :
                \E o \in {Ret(Prim(6)), Ret(Undef), Ret(callerError), Throw(Prim(7))} : Chain(r, o)
          \/ \E r \in Receivers(conts) :
                \E o \in {Ret(Prim(6)), Reject(callerError), Throw(Prim(7))} : Await(r, o)
          \/ \E r \in Receivers(conts) : \E o \in PredOuts : Filter(r, o)
          \/ \E r \in Receivers(conts) : \E o \in PredOuts : Guard(r, o)
          \/ \E r \in Receivers(conts) :
                \E o \in {Ret(Prim(6)), Ret(Undef), Throw(callerError)}
                          \cup (IF isErr(conts, r) THEN {Msg} ELSE {}) : Or(r, o)
          \/ \E r \in Receivers(conts) : \E o \in BoundaryOuts(conts) \cup {MakeOk(Prim(8)), MakeErr(ErrorVal(5))} : Catch(r, o)
          \/ \E r \in Receivers(conts) : \E cases \in SomeCases : Match(r, cases)
          \/ \E o \in BoundaryOuts(conts) : CallResult(o)
          \/ \E o \in BoundaryOuts(conts) \cup {Reject(e) : e \in Thrown} : CallTask(o)
       /\ Len(conts') <= MaxHeld   \* the caller keeps no more than MaxHeld
    \/ \E r \in Receivers(conts) : Get(r)
    \/ flw.pc = "idle" /\ \E args \in ShortFlowArgs(conts) : FlowStart(args)
    \/ FlowSettle

SpecOps == Init /\ [][NextOps]_vars

\* ---------------------------------------------------------------- retry runs
\* what one invocation of fn does: its promise fulfils, or rejects, or fn throws
AttemptOuts ==
    {Ret(Prim(6)), Ret(Undef), Reject(callerError), Reject(ErrorVal(5)), Reject(Prim(7)),
     Throw(callerError)}

\* one outcome for each invocation there can be
AttemptSeqs == [1..(MaxRetries + 1) -> AttemptOuts]

NextRetry ==
    \/ \E outs \in AttemptSeqs : \E n \in 0..MaxRetries : \E d \in {1, 3} :
          RetryCall(outs, n, d)
    \/ \E outs \in AttemptSeqs :
          \E n \in {Undef} \cup {Prim(i) : i \in 0..MaxRetries} : \E d \in {Undef, Prim(1)} :
             GatherCall(outs, n, d)
    \/ AttemptSettle
    \/ TimerFires

SpecRetry == Init /\ [][NextRetry]_vars

\* ---------------------------------------------------------------- equations and normalisers
\* one side of an equation, as toEqual sees it
Side(x) ==
    IF x.threw THEN [tag |-> "raised", payload |-> <<>>, error |-> x.exc]
    ELSE IF isNil(x.ret) THEN [tag |-> "Nil", payload |-> <<>>, error |-> Undef]
    ELSE IF x.ret.k = "cont"
    THEN LET c == x.conts[x.ret.n]
         IN  [tag |-> c.tag, error |-> c.error,
              payload |-> IF c.tag = "Ok" THEN Snap(x.heap, c.value) ELSE <<>>]
    ELSE [tag |-> "value", payload |-> Snap(x.heap, x.ret), error |-> Undef]

\* fn(x), called by the caller itself
CallFn(h, cs, o, x) ==
    LET c == Run(h, cs, ApplyIn(h, o, x))
    IN  IF c.out.t = "ret" THEN Returns(c.heap, c.conts, c.out.v, "fn")
        ELSE Raises(c.heap, c.conts, c.out.v, "fn")

\* what v => f(g(v)) does when it is called with x
ComposedAt(h, f, g, x) ==
    LET a == ApplyIn(h, g, x)
    IN  IF a.t # "ret" THEN a ELSE ApplyIn(h, f, a.v)

\* r.map(fn) for a receiver of any variant
MapOn(h, cs, r, o) ==
    IF isNil(r) THEN NilNoOp(h, cs)
    ELSE IF isErr(cs, r) THEN ErrNoOp(h, cs, r.n)
    ELSE OkMap(h, cs, r.n, o)

\* the cells a new Ok takes for its copy of v
CopyCost(h, v) == IF v.k = "obj" /\ Cloneable(h, v.n) THEN GraphSize(h, v.n) ELSE 0

\* expect(ok(x).chain(f)) against expect(f(x))
LeftIdentity(x, f) ==
    /\ 2 * CopyCost(heap, x) <= Cardinality(Free(heap))
    /\ LET r == ok(heap, <<>>, x)
       IN  law' = [name |-> "leftIdentity", x |-> x, f |-> f, g |-> NoHandler,
                   lhs |-> Side(OkChain(r.heap, r.conts, 1, f)),
                   rhs |-> Side(CallFn(heap, <<>>, f, x))]
    /\ UNCHANGED <<heap, conts, last, flw, rt>>

\* expect(ok(x).map(v => f(g(v)))) against expect(ok(x).map(g).map(f))
Composition(x, f, g) ==
    /\ LET gx == ApplyIn(heap, g, x)
           more == IF gx.t = "ret" THEN CopyCost(heap, gx.v) ELSE 0
       IN  CopyCost(heap, x) + more * (IF f = Id THEN 2 ELSE 1) <= Cardinality(Free(heap))
    /\ LET r == ok(heap, <<>>, x)
           lhs == OkMap(r.heap, r.conts, 1, ComposedAt(r.heap, f, g, r.conts[1].value))
           m1 == OkMap(r.heap, r.conts, 1, g)
           rhs == IF m1.threw THEN m1 ELSE MapOn(m1.heap, m1.conts, m1.ret, f)
       IN  law' = [name |-> "composition", x |-> x, f |-> f, g |-> g,
                   lhs |-> Side(lhs), rhs |-> Side(rhs)]
    /\ UNCHANGED <<heap, conts, last, flw, rt>>

\* maybe(v)
CallMaybe(v) ==
    /\ Room(heap, conts, v)
    /\ Observe("maybe", Undef, v, FromAlloc(maybe(heap, conts, v), "none"))

\* wrap(v)
CallWrap(v) ==
    /\ Room(heap, conts, v)
    /\ Observe("wrap", Undef, v, FromAlloc(wrap(heap, conts, v), "none"))

\* toResult(v)
CallToResult(v) ==
    /\ Room(heap, conts, v)
    /\ Observe("toResult", Undef, v, FromAlloc(toResult(heap, conts, v), "none"))

\* unwrap(v)
CallUnwrap(v) ==
    /\ isOk(conts, v) => conts[v.n].okGets < MaxGets
    /\ LET x == unwrap(heap, conts, v)
           counted == IF isOk(conts, v)
                      THEN [x.conts EXCEPT ![v.n].okGets = IF x.threw THEN @ ELSE @ + 1]
                      ELSE x.conts
       IN  Observe("unwrap", v, Undef, [x EXCEPT !.conts = counted])

\* the payloads and functions of the equations
LawPayloads == {Prim(5), ObjRef(2), ObjRef(3)}
ResultFns == {OkOf, OkCallMethod, MakeOk(Prim(8)), MakeErr(callerError), Ret(NilRef)}
InnerFns == {Id, CallMethod, Ret(Prim(6)), Ret(ObjRef(2)), Ret(Undef)}
OuterFns == {Id, CallMethod, Ret(Prim(6))}

\* the values handed to maybe, wrap, toResult and unwrap
Loose(cs) ==
    {Undef, NullVal, Prim(5), FnVal, ObjRef(3), callerError, NilRef} \cup ContRefs(cs)

\* a run evaluates equations, or makes calls on the containers it keeps
NextLaws ==
    \/ /\ last = NoOp
       /\ \/ \E x \in LawPayloads : \E f \in ResultFns : LeftIdentity(x, f)
          \/ \E x \in LawPayloads : \E f \in OuterFns : \E g \in InnerFns :
                Composition(x, f, g)
    \/ /\ law = NoLaw
       /\ \/ \E v \in {Prim(5), ObjRef(3)} : CallOk(v)
          \/ CallErr(callerError)
          \/ \E r \in Receivers(conts) : Get(r)
          \/ \E v \in Loose(conts) : CallMaybe(v)
          \/ \E v \in Loose(conts) : CallWrap(v)
          \/ \E v \in Loose(conts) : CallToResult(v)
          \/ \E v \in Loose(conts) : CallUnwrap(v)

SpecLaws == Init /\ [][NextLaws]_vars

\* ---------------------------------------------------------------- consumption
\* the container the latest call was made on
Recv == conts[last.recv.n]

OnOk == last.recv.k = "cont" /\ Recv.tag = "Ok"

\* the container the latest call returned
RetCont == IF last.fresh.tag # "none" THEN last.fresh
           ELSE IF last.ret.k = "cont" THEN conts[last.ret.n] ELSE NoCont

\* the addresses of the graph rooted at v
RECURSIVE Cells(_, _)
Cells(h, v) ==
    IF v.k # "obj" THEN {}
    ELSE {v.n} \cup (IF h[v.n].child = 0 THEN {} ELSE Cells(h, ObjRef(h[v.n].child)))

\* C1: an Ok built over an object hands its payload out once: the get() that
\* finds it unconsumed returns a value deep-equal to the payload it was built
\* over, every get() after that throws consumedError, and no container over
\* an object has ever served two get() calls.
C1_GetOnce ==
    /\ \A i \in 1..Len(conts) :
          (conts[i].tag = "Ok" /\ conts[i].mut) =>
              /\ conts[i].okGets <= 1
              /\ gone(conts[i]) <=> conts[i].okGets = 1
    /\ (last.op = "get" /\ OnOk /\ Recv.mut) =>
          IF last.pre = "ok"
          THEN ~last.threw /\ Snap(heap, last.ret) = Recv.orig /\ gone(Recv)
          ELSE last.threw /\ last.exc = consumedError /\ last.pre = "gone"

\* a second get() on a container over an object has been tried
C1_Witness ==
    /\ last.op = "get" /\ OnOk /\ Recv.mut /\ Recv.src.k = "obj"
    /\ last.pre = "gone" /\ Recv.okGets = 1

\* C2: an Ok over a number or a function is never consumed: every get()
\* returns the payload it was built over, and the slot keeps holding it.
C2_ScalarRepeatable ==
    /\ \A i \in 1..Len(conts) :
          (conts[i].tag = "Ok" /\ conts[i].src.k \in {"prim", "fn"}) =>
              ~isGone(conts, ContRef(i)) /\ conts[i].value = conts[i].src
    /\ (last.op = "get" /\ OnOk /\ Recv.src.k \in {"prim", "fn"}) =>
          ~last.threw /\ last.ret = Recv.src /\ last.pre = "ok"

\* get() has returned MaxGets times on one Ok over a number, and on one over a function
C2_Witness ==
    /\ last.op = "get" /\ OnOk /\ ~last.threw /\ Recv.okGets = MaxGets
    /\ \E i \in 1..Len(conts) : conts[i].src = FnVal /\ conts[i].okGets = MaxGets
    /\ \E i \in 1..Len(conts) : conts[i].src = Prim(5) /\ conts[i].okGets = MaxGets

\* C6: map(fn) on a consumed Ok throws consumedError and does not call fn.
C6_MapAfterConsumed ==
    (last.op = "map" /\ last.pre = "gone") =>
        last.threw /\ last.exc = consumedError /\ last.by = "none"

C6_Witness == last.op = "map" /\ last.pre = "gone" /\ Recv.okGets = 1

\* C7: chain(fn) and await(fn) on a consumed Ok do not throw and do not call
\* fn: they return (resolve to) an Err that carries consumedError.
C7_ChainAfterConsumed ==
    (last.op \in {"chain", "await"} /\ last.pre = "gone") =>
        /\ ~last.threw /\ last.by = "none"
        /\ last.ret.k = "cont" /\ RetCont.tag = "Err" /\ RetCont.error = consumedError

C7_Witness == last.op = "chain" /\ last.pre = "gone" /\ Recv.okGets = 1

\* C8: match(cases) on a consumed Ok returns what cases.Gone returns when
\* there is a Gone handler, returns an Err carrying consumedError when there
\* is none, and calls the Ok handler in neither case.
C8_MatchGone ==
    (last.op = "match" /\ last.pre = "gone") =>
        /\ last.by # "Ok"
        /\ IF last.arg.Gone.t = "ret"
           THEN ~last.threw /\ last.by = "Gone" /\ last.ret = last.arg.Gone.v
           ELSE /\ ~last.threw /\ last.by = "none"
                /\ last.ret.k = "cont" /\ RetCont.tag = "Err" /\ RetCont.error = consumedError

\* match with an Ok handler and no Gone handler has run on a consumed Ok
C8_Witness ==
    /\ last.op = "match" /\ last.pre = "gone"
    /\ last.arg.Ok.t = "ret" /\ last.arg.Gone.t = "none"

\* the Ok was built over an object that structuredClone can copy
OverCloneable(c) == c.tag = "Ok" /\ c.src.k = "obj" /\ Cloneable(heap, c.src.n)

\* C9: an Ok built over a cloneable object holds a deep copy: whatever the
\* caller does to the original afterwards, the payload stays equal to what
\* the original was at construction, and get() returns an object that shares
\* no part with the original.
C9_DeepCopy ==
    /\ \A i \in 1..Len(conts) :
          (OverCloneable(conts[i]) /\ ~gone(conts[i])) =>
              /\ Snap(heap, conts[i].value) = conts[i].orig
              /\ Cells(heap, conts[i].value) \cap Cells(heap, conts[i].src) = {}
    /\ (last.op = "get" /\ OnOk /\ OverCloneable(Recv) /\ ~last.threw) =>
          /\ last.ret # Recv.src
          /\ Snap(heap, last.ret) = Recv.orig
          /\ Cells(heap, last.ret) \cap Cells(heap, Recv.src) = {}

\* get() has returned the payload after the caller changed the original
C9_Witness ==
    /\ last.op = "get" /\ OnOk /\ OverCloneable(Recv) /\ ~last.threw
    /\ Snap(heap, Recv.src) # Recv.orig
\* ---------------------------------------------------------------- flow
\* C3: once res is an Err, flow has returned exactly that Err: res is never
\* assigned again and no step at or after that position has been invoked.
C3_ErrShortCircuits ==
    \A j \in 1..Len(flw.resLog) :
        flw.resLog[j].c.tag = "Err" =>
            /\ j = Len(flw.resLog)
            /\ \A i \in 1..Len(flw.calls) : flw.calls[i].step < j
            /\ flw.pc = "done" /\ flw.out = flw.resLog[j]

\* a step has produced an Err while a later step function was waiting
C3_Witness ==
    \E j \in 2..Len(flw.resLog) :
        /\ flw.resLog[j].c.tag = "Err"
        /\ j <= Len(flw.fns) /\ isFunction(flw.fns[j].val)
        /\ Len(flw.calls) = j - 1

\* C4 (fails): steps are invoked in argument order, each at most once, and no
\* step is invoked while asynchronous work of an earlier step is unsettled.
C4_StepsWaitForSettle ==
    \A i \in 1..Len(flw.calls) :
        /\ flw.calls[i].unsettled = {}
        /\ i > 1 => flw.calls[i - 1].step < flw.calls[i].step

\* C10: a step that is not a function is never invoked, nor is any step after
\* it; when flow reaches it with a res that is not an Err, flow returns an
\* Err carrying TypeError('Expected a function in flow').
C10_NotAFunction ==
    \A k \in 1..Len(flw.fns) :
        ~isFunction(flw.fns[k].val) =>
            /\ \A i \in 1..Len(flw.calls) : flw.calls[i].step < k
            /\ (Len(flw.resLog) >= k /\ flw.resLog[k].c.tag # "Err") =>
                  /\ flw.pc = "done"
                  /\ flw.out.c.tag = "Err" /\ flw.out.c.error = flowTypeError

\* flow has stopped at a non-function between two step functions
C10_Witness ==
    /\ flw.pc = "done" /\ flw.out.c.error = flowTypeError
    /\ Len(flw.fns) = 3 /\ ~isFunction(flw.fns[2].val) /\ isFunction(flw.fns[3].val)
    /\ Len(flw.calls) = 1

CallbackThrew ==
    /\ last.by # "none"
    /\ LET o == IF last.op = "match" THEN last.arg[last.by] ELSE last.arg
       IN  o.t = "throw" /\ last.exc = o.v

C11_Seed ==
    flw.pc # "idle" =>
        LET s == flw.resLog[1]
        IN  IF isFunction(flw.first)
            THEN /\ s.ref = NilRef
                 /\ Len(flw.fns) = flw.nargs /\ flw.fns[1].val = flw.first
                 /\ Len(flw.calls) >= 1
                 /\ flw.calls[1].step = 1 /\ flw.calls[1].arg = Undef
            ELSE /\ Len(flw.fns) = flw.nargs - 1
                 /\ \A i \in 1..Len(flw.calls) : flw.calls[i].step <= flw.nargs - 1
                 /\ IF ~isDefined(flw.first) THEN s.ref = NilRef
                    ELSE IF isError(flw.first)
                    THEN s.ref = OwnRef /\ s.c.tag = "Err" /\ s.c.error = flw.first
                    ELSE IF flw.first.k = "cont" THEN s.ref = flw.first
                    ELSE /\ s.ref = OwnRef /\ s.c.tag = "Ok"
                         /\ s.c.src = flw.first /\ s.c.value = flw.first

\* a flow whose first argument is a function has run that function and a second step
C11_Witness ==
    /\ flw.pc = "done" /\ isFunction(flw.first)
    /\ Len(flw.calls) = 2 /\ flw.calls[2].step = 2

\* ---------------------------------------------------------------- result and task
\* the latest call returned the normalisation of v: Nil for undefined, v
\* itself when v is a container, a new Err carrying v when v is an Error, and
\* a new Ok over v otherwise
RetIsNormalOf(v) ==
    IF ~isDefined(v) THEN last.ret = NilRef /\ last.fresh = NoCont
    ELSE IF v.k \in {"cont", "nil"} THEN last.ret = v /\ last.fresh = NoCont
    ELSE IF isError(v)
    THEN last.ret.k = "cont" /\ last.fresh.tag = "Err" /\ last.fresh.error = v
    ELSE last.ret.k = "cont" /\ last.fresh.tag = "Ok" /\ last.fresh.src = v

\* the latest call returned a new Err that carries e, or new Error(String(e))
\* when e is not an Error
RetIsErrOf(e) ==
    /\ last.ret.k = "cont" /\ last.fresh.tag = "Err"
    /\ isError(last.fresh.error)
    /\ last.fresh.error = IF isError(e) THEN e ELSE NewError(e)

C14_RetryUsesBudget ==
    (rt.kind = "retry" /\ rt.pc = "done" /\ rt.out.tag = "Err") =>
        /\ Len(rt.calls) = rt.retries0 + 1
        /\ Len(rt.waits) = rt.retries0

\* the error an Err is made of: e itself, or new Error(String(e))
AsError(e) == IF isError(e) THEN e ELSE NewError(e)

\* C15: gather(fn, retries, delay) invokes fn one attempt at a time: attempt k
\* starts only when the k - 1 attempts before it have rejected and k - 1
\* timers have fired, the j-th of them set to delay * 2^(j-1); there are at
\* most retries + 1 attempts; a fulfilment ends the run with its normalised
\* value, and a rejection ends it only at attempt retries + 1, with an Err of
\* that rejection.  With retries left out there is exactly one attempt.
C15_GatherBackoff ==
    (rt.kind = "gather" /\ rt.pc # "rejected") =>
        LET n == Len(rt.calls)
        IN  /\ n >= 1 /\ n <= rt.retries0 + 1
            /\ \A k \in 1..n :
                  /\ rt.calls[k].settled = k - 1 /\ rt.calls[k].waits = k - 1
                  /\ \A j \in 1..(k - 1) : rt.outs[j].t = "reject"
            /\ \A j \in 1..Len(rt.waits) : rt.waits[j] = rt.delay0 * 2^(j - 1)
            /\ rt.pc = "wait" => rt.outs[n].t = "reject" /\ n <= rt.retries0
            /\ rt.pc = "done" =>
                  IF rt.outs[n].t = "ret"
                  THEN IF isDefined(rt.outs[n].v)
                       THEN rt.out.tag = "Ok" /\ rt.out.value = rt.outs[n].v
                       ELSE rt.out = NilCont
                  ELSE /\ n = rt.retries0 + 1
                       /\ rt.out.tag = "Err" /\ rt.out.error = AsError(rt.outs[n].v)

\* gather has given up after two retries, the last rejection differing from the first
C15_Witness ==
    /\ rt.kind = "gather" /\ rt.pc = "done" /\ rt.retries0 = 2
    /\ Len(rt.calls) = 3 /\ rt.waits = <<rt.delay0, rt.delay0 * 2>>
    /\ rt.out.tag = "Err" /\ rt.out.error = ErrorVal(5) /\ rt.outs[1].v = callerError

\* ---------------------------------------------------------------- the error of an Err
\* every container there is: those the caller keeps, the one the latest call
\* made, and those of the flow
Everywhere ==
    {conts[i] : i \in 1..Len(conts)} \cup {last.fresh, flw.own, flw.out.c}
        \cup {flw.resLog[j].c : j \in 1..Len(flw.resLog)}

\* C16: every Err carries an Error: the Error it was made of, the same
\* object, or new Error(String(x)) when it was made of an x that is not an
\* Error.  In particular what err(x) is given, what a function under result,
\* task, chain, await or catch throws or rejects with, and an Error such a
\* function returns, arrive in the Err that way.
C16_ErrCarriesError ==
    /\ \A c \in Everywhere :
          c.tag = "Err" => isError(c.error) /\ c.error = AsError(c.src)
    /\ last.op = "err" => last.fresh.tag = "Err" /\ last.fresh.error = AsError(last.arg)
    /\ (last.op \in {"result", "task", "chain", "await", "catch"} /\ last.by = "fn") =>
          /\ last.arg.t \in {"throw", "reject"} => RetIsErrOf(last.arg.v)
          /\ (last.arg.t = "ret" /\ isError(last.arg.v)) => RetIsErrOf(last.arg.v)
    /\ (flw.pc = "done" /\ flw.out.c.tag = "Err") => isError(flw.out.c.error)

\* the caller keeps an Err made of a number, and a flow has ended in an Err
\* made of a number that a step threw
C16_Witness ==
    /\ flw.pc = "done" /\ flw.out.c.tag = "Err"
    /\ flw.out.c.src = Prim(7) /\ flw.out.c.error = NewError(Prim(7))
    /\ \E i \in 1..Len(conts) : conts[i].tag = "Err" /\ conts[i].src = Prim(7)

\* ---------------------------------------------------------------- get on Err and Nil
\* C17: get() on an Err throws the error the Err stores, which is still the
\* error it was made with, and returns nothing; get() on Nil does not throw
\* and returns undefined.
C17_GetOnErrAndNil ==
    /\ (last.op = "get" /\ last.pre = "err") =>
          /\ last.threw /\ last.ret = Undef
          /\ Recv.tag = "Err" /\ last.exc = Recv.error /\ Recv.error = AsError(Recv.src)
    /\ (last.op = "get" /\ last.pre = "nil") => ~last.threw /\ last.ret = Undef

\* get() on an Err made of a number has thrown new Error("7")
C17_Witness ==
    /\ last.op = "get" /\ last.pre = "err" /\ last.threw
    /\ Recv.src = Prim(7) /\ last.exc = NewError(Prim(7))

\* ---------------------------------------------------------------- no-ops
\* C18: map, chain and await on an Err or on Nil return the receiver itself,
\* create no container and do not call the function; the Err still carries
\* the error it was made with.
C18_NoOpsOnErrAndNil ==
    (last.op \in {"map", "chain", "await"} /\ last.pre \in {"err", "nil"}) =>
        /\ ~last.threw /\ last.by = "none"
        /\ last.ret = last.recv /\ last.made = 0
        /\ last.pre = "err" => Recv.tag = "Err" /\ Recv.error = AsError(Recv.src)

\* chain has been called on an Err with a function that would throw
C18_Witness ==
    /\ last.op = "chain" /\ last.pre = "err" /\ last.arg = Throw(Prim(7))
    /\ last.ret = last.recv

\* ---------------------------------------------------------------- filter and guard
\* C19: filter and guard call the predicate only on an unconsumed Ok; they
\* return the receiver, still unconsumed, exactly when the receiver is an
\* unconsumed Ok and the predicate returned true, and Nil whenever they
\* return otherwise; they create no container.
C19_FilterGuard ==
    last.op \in {"filter", "guard"} =>
        /\ last.made = 0
        /\ last.pre \in {"gone", "nil", "err"} =>
              ~last.threw /\ last.by = "none" /\ last.ret = NilRef
        /\ last.pre = "ok" => last.by = "fn" /\ (last.threw <=> last.arg.t = "throw")
        /\ ~last.threw =>
              IF last.pre = "ok" /\ last.arg = Ret(TrueVal)
              THEN last.ret = last.recv /\ Recv.tag = "Ok" /\ ~gone(Recv)
              ELSE last.ret = NilRef

\* guard has been called on a consumed Ok with a predicate that returns true
C19_Witness ==
    /\ last.op = "guard" /\ last.pre = "gone" /\ last.arg = Ret(TrueVal)
    /\ last.ret = NilRef

\* ---------------------------------------------------------------- catch
\* the latest call returned the one container its callback built
RetIsBuilt ==
    /\ last.made = 1 /\ last.ret.k = "cont"
    /\ \/ last.ret.n = Len(conts) + 1
       \/ last.ret.n = Len(conts) /\ conts[Len(conts)] = last.fresh

\* C20: catch on an Ok, consumed or not, and on Nil returns the receiver and
\* does not call fn; catch on an Err calls fn, and when fn returns a
\* container (one the caller holds, Nil, or an Ok or Err that fn builds) it
\* returns that very container and creates no other.
C20_CatchOnlyOnErr ==
    last.op = "catch" =>
        /\ ~last.threw
        /\ last.pre \in {"ok", "gone", "nil"} =>
              last.by = "none" /\ last.ret = last.recv /\ last.made = 0
        /\ last.pre = "err" =>
              /\ last.by = "fn"
              /\ (last.arg.t = "ret" /\ last.arg.v.k \in {"cont", "nil"}) =>
                    last.ret = last.arg.v /\ last.made = 0
              /\ last.arg.t = "ok" =>
                    RetIsBuilt /\ last.fresh.tag = "Ok" /\ last.fresh.src = last.arg.v
              /\ last.arg.t = "err" =>
                    RetIsBuilt /\ last.fresh.tag = "Err" /\ last.fresh.error = last.arg.v

\* catch on an Err has returned the Ok that its function built
C20_Witness ==
    /\ last.op = "catch" /\ last.pre = "err" /\ last.arg = MakeOk(Prim(8))
    /\ last.fresh.tag = "Ok" /\ last.fresh.value = Prim(8)

\* ---------------------------------------------------------------- or
\* C21: or(fn) on an Ok, consumed or not, returns the receiver, creates
\* nothing and does not call fn; on Nil and on an Err it calls fn, on an Err
\* with the stored error, and returns a new Ok over what fn returned, or Nil
\* when fn returned undefined.
C21_OrFallback ==
    last.op = "or" =>
        /\ last.pre \in {"ok", "gone"} =>
              ~last.threw /\ last.by = "none" /\ last.ret = last.recv /\ last.made = 0
        /\ last.pre \in {"nil", "err"} =>
              /\ last.by = "fn"
              /\ last.arg.t = "ret" =>
                    /\ ~last.threw
                    /\ IF isDefined(last.arg.v)
                       THEN /\ last.ret.k = "cont" /\ last.made = 1
                            /\ last.fresh.tag = "Ok" /\ last.fresh.src = last.arg.v
                       ELSE last.ret = NilRef /\ last.made = 0
              /\ (last.arg.t = "msg" /\ last.pre = "err") =>
                    /\ ~last.threw /\ last.made = 1
                    /\ last.fresh.tag = "Ok" /\ last.fresh.src = Prim(Recv.error.n)

\* or(e => e.message) on an Err made of a number has returned an Ok of the message
C21_Witness ==
    /\ last.op = "or" /\ last.pre = "err" /\ last.arg = Msg
    /\ Recv.src = Prim(7) /\ last.fresh.tag = "Ok" /\ last.fresh.value = Prim(17)

\* ---------------------------------------------------------------- the laws of Ok
\* f returned a Result when the caller called it with x
ReturnsResult == law.rhs.tag \in {"Ok", "Nil", "Err"}

\* C22: monad left identity: for every payload x and every function f that
\* returns a Result, ok(x).chain(f) equals f(x): the same variant, and an
\* equal payload or the same error
C22_LeftIdentity ==
    (law.name = "leftIdentity" /\ ReturnsResult) => law.lhs = law.rhs

\* f(g(x)) has a value when the caller computes it
ComposedIsDefined == ComposedAt(heap, law.f, law.g, law.x).t = "ret"

\* C23: functor composition: for every payload x and functions f and g,
\* ok(x).map(v => f(g(v))) and ok(x).map(g).map(f) are both Ok containers and
\* their payloads are equal
C23_Composition ==
    (law.name = "composition" /\ ComposedIsDefined) =>
        /\ law.lhs.tag = "Ok"
        /\ law.rhs.tag = "Ok"
        /\ law.lhs.payload = law.rhs.payload

\* ---------------------------------------------------------------- maybe, wrap, unwrap
\* the containers the latest call left: the caller's, and the one it built if
\* the caller did not keep it
Left ==
    IF last.ret.k = "cont" /\ last.ret.n > Len(conts) THEN Append(conts, last.fresh)
    ELSE conts

\* the latest call built one Ok around its argument and returned it
WrappedInOk ==
    /\ last.made = 1
    /\ last.ret = ContRef(Len(Left))
    /\ last.fresh.tag = "Ok"
    /\ last.fresh.src = last.arg

\* C24: maybe(value) returns Nil for null and undefined, the very same
\* container for an Ok or a Nil, and a new Ok around any other value;
\* maybe(maybe(v)) is the same container as maybe(v)
C24_Maybe ==
    last.op = "maybe" =>
        /\ ~last.threw
        /\ IF last.arg \in {Undef, NullVal} THEN last.ret = NilRef /\ last.made = 0
           ELSE IF isOk(conts, last.arg) \/ isNil(last.arg)
           THEN last.ret = last.arg /\ last.made = 0
           ELSE WrappedInOk
        /\ LET again == maybe(heap, Left, last.ret)
           IN  again.ref = last.ret /\ again.conts = Left /\ again.heap = heap

C24_Witness ==
    /\ last.op = "maybe"
    /\ isOk(conts, last.arg)
    /\ gone(conts[last.arg.n])
    /\ last.ret = last.arg

\* the normaliser the latest call applied, applied to what it returned
NormalisedAgain ==
    IF last.op = "wrap" THEN wrap(heap, Left, last.ret) ELSE toResult(heap, Left, last.ret)

\* C25: wrap (toResult in the earlier revision) maps null and undefined to
\* Nil, returns an Ok, a Nil or an Err as it is, wraps an Error value in an
\* Err and any other value in an Ok; applied to its own result it returns
\* the same container
C25_Wrap ==
    last.op \in {"wrap", "toResult"} =>
        /\ ~last.threw
        /\ IF last.arg \in {Undef, NullVal} THEN last.ret = NilRef /\ last.made = 0
           ELSE IF isResult(conts, last.arg) THEN last.ret = last.arg /\ last.made = 0
           ELSE IF isError(last.arg)
           THEN /\ last.made = 1
                /\ last.ret = ContRef(Len(Left))
                /\ last.fresh.tag = "Err"
                /\ last.fresh.error = last.arg
           ELSE WrappedInOk
        /\ NormalisedAgain.ref = last.ret
        /\ NormalisedAgain.conts = Left
        /\ NormalisedAgain.heap = heap

C25_Witness ==
    /\ last.op = "wrap"
    /\ isErr(conts, last.arg)
    /\ last.ret = last.arg
    /\ Len(conts) = 2 /\ isOk(conts, ContRef(1))

\* C26: unwrap(value) returns the stored error of an Err without throwing,
\* what get() gives for an Ok (the payload, or the consumed-reference error
\* raised) and for a Nil (undefined), and any other value as it is;
\* unwrapping an Ok with a structured payload consumes it
C26_Unwrap ==
    last.op = "unwrap" =>
        /\ last.made = 0
        /\ last.pre = "err" => ~last.threw /\ last.ret = Recv.error
        /\ last.pre = "nil" => ~last.threw /\ last.ret = Undef
        /\ last.pre = "ok" =>
              /\ ~last.threw
              /\ last.ret = Recv.src
              /\ gone(Recv) <=> Recv.mut
        /\ last.pre = "gone" => last.threw /\ last.exc = consumedError /\ gone(Recv)
        /\ last.pre = "none" => ~last.threw /\ last.ret = last.recv

C26_Witness ==
    /\ last.op = "unwrap"
    /\ last.pre = "ok"
    /\ last.ret = ObjRef(3)
    /\ gone(Recv)

\* ---------------------------------------------------------------- payloads that cannot be copied
\* c was built over an object structuredClone rejects (a promise, say)
OverUncopied(c) == c.tag = "Ok" /\ c.src.k = "obj" /\ ~Cloneable(heap, c.src.n)

\* C27: an Ok over a structured payload that cannot be deep-copied holds the
\* original reference; the first get() returns that identical object and
\* consumes the container, and a second get() raises the consumed-reference
\* error
C27_UncopiedPayload ==
    /\ \A i \in 1..Len(conts) :
          OverUncopied(conts[i]) =>
              /\ conts[i].mut
              /\ conts[i].value \in {conts[i].src, UNSET}
              /\ conts[i].okGets <= 1
              /\ gone(conts[i]) <=> conts[i].okGets = 1
    /\ (last.op = "get" /\ last.recv.k = "cont" /\ OverUncopied(Recv)) =>
          IF last.pre = "ok"
          THEN ~last.threw /\ last.ret = Recv.src /\ gone(Recv)
          ELSE last.threw /\ last.exc = consumedError /\ gone(Recv)

C27_Witness ==
    /\ last.op = "get"
    /\ last.recv.k = "cont"
    /\ OverUncopied(Recv)
    /\ Recv.src = ObjRef(3)
    /\ last.pre = "gone"
    /\ last.exc = consumedError
    /\ Recv.okGets = 1

\* ---------------------------------------------------------------- the consumed state
\* this step, a get() returned the payload of container i: a call of get() by
\* the caller, or the get() by which a flow hands its result to a step
GotBy(i) ==
    \/ /\ last'.op = "get"
       /\ last'.recv = ContRef(i)
       /\ ~last'.threw
       /\ last'.ret = conts[i].value
    \/ /\ last'.op = "flow"
       /\ \E k \in (Len(flw.calls) + 1)..Len(flw'.calls) : flw'.calls[k].arg = conts[i].value

Methods == {"map", "chain", "await", "filter", "guard", "or", "catch", "match"}

\* C28: the payload slot and the structured flag of an Ok change only when a
\* get() succeeds on a structured payload, which clears the slot; map, chain,
\* await, filter, guard, or, catch and match leave both as they are; an Ok
\* that is gone stays gone
C28_ConsumedOnlyByGet ==
    [][/\ Len(conts') >= Len(conts)
       /\ \A i \in 1..Len(conts) :
             conts[i].tag = "Ok" =>
                 /\ conts'[i].tag = "Ok"
                 /\ conts'[i].mut = conts[i].mut
                 /\ gone(conts[i]) => gone(conts'[i])
                 /\ conts'[i].value # conts[i].value =>
                       conts[i].mut /\ gone(conts'[i]) /\ GotBy(i)
                 /\ last'.op \in Methods => conts'[i].value = conts[i].value]_vars

C28_Witness ==
    /\ last.op = "await"
    /\ last.pre = "ok"
    /\ last.by = "fn"
    /\ Recv.mut
    /\ Recv.value = ObjRef(3)

\* ---------------------------------------------------------------- flow: Nil, and the order of the checks
\* step k of the flow has been invoked
Invoked(k) == \E i \in 1..Len(flw.calls) : flw.calls[i].step = k

\* C29: a res of Nil does not end a flow: the step function at that position
\* is invoked, with undefined; a flow that returns with a step left
\* uninvoked returns an Err
C29_NilGoesOn ==
    /\ \A j \in 1..Len(flw.resLog) :
          (flw.resLog[j].c.tag = "Nil" /\ j <= Len(flw.fns) /\ isFunction(flw.fns[j].val)) =>
              \E i \in 1..Len(flw.calls) :
                  flw.calls[i].step = j /\ flw.calls[i].arg = Undef
    /\ (flw.pc = "done" /\ \E k \in 1..Len(flw.fns) : ~Invoked(k)) =>
          flw.out.c.tag = "Err"

\* a step returned undefined and the step after it ran, with undefined
C29_Witness ==
    /\ flw.pc = "done"
    /\ ~isFunction(flw.first)
    /\ Len(flw.resLog) = 3
    /\ flw.resLog[1].c.tag = "Ok"
    /\ flw.resLog[2].c.tag = "Nil"
    /\ Len(flw.calls) = 2
    /\ flw.calls[2].step = 2 /\ flw.calls[2].arg = Undef

\* the first step that is not a function, 0 if every step is one
FirstNonFn ==
    IF \A k \in 1..Len(flw.fns) : isFunction(flw.fns[k].val) THEN 0
    ELSE CHOOSE k \in 1..Len(flw.fns) :
             /\ ~isFunction(flw.fns[k].val)
             /\ \A j \in 1..(k - 1) : isFunction(flw.fns[j].val)

\* C30: flow tests res for Err before it tests the step: reaching a step that
\* is not a function with an Err in res, flow returns that Err, not the
\* TypeError; a flow that returns the TypeError has invoked every step
\* before the one that is not a function
C30_ErrBeforeCallable ==
    /\ \A k \in 1..Len(flw.fns) :
          (~isFunction(flw.fns[k].val) /\ Len(flw.resLog) >= k
                /\ flw.resLog[k].c.tag = "Err") =>
              /\ flw.pc = "done"
              /\ flw.out = flw.resLog[k]
              /\ flw.out.c.error # flowTypeError
    /\ (flw.pc = "done" /\ flw.out.c.tag = "Err" /\ flw.out.c.error = flowTypeError) =>
          /\ FirstNonFn > 0
          /\ Len(flw.resLog) = FirstNonFn
          /\ flw.resLog[FirstNonFn].c.tag # "Err"
          /\ \A j \in 1..(FirstNonFn - 1) : Invoked(j)
          /\ \A j \in FirstNonFn..Len(flw.fns) : ~Invoked(j)

\* a step threw, the next step is not a function, and flow returned the
\* Err of the throw
C30_Witness ==
    /\ flw.pc = "done"
    /\ Len(flw.fns) = 2
    /\ ~isFunction(flw.fns[2].val)
    /\ Invoked(1)
    /\ flw.resLog[2].c.tag = "Err"
    /\ flw.out = flw.resLog[2]
    /\ flw.out.c.error = NewError(Prim(7))

====
